---- MODULE Spec2Model ----
(***************************************************************************)
(* A model of the EditEvent screen controller                              *)
(* (src/play-media-native/screens/EditEvent.tsx) and of the OrderedList    *)
(* renderer (src/unnamed/part_000).                                        *)
(*                                                                         *)
(* The screen is a React function component.  Its hook state is modelled   *)
(* by one variable per useState hook; the values captured by the closures  *)
(* of the last committed render (the handlers the buttons call, the flags  *)
(* the JSX shows) are the record "rendered".  A state update made inside a *)
(* discrete user event (a press, a field edit) is rendered before the next *)
(* event is handled (syncFlush); a state update made from a promise        *)
(* callback is rendered by a later Render step.  Passive effects           *)
(* (useEffect, useFocusEffect) of a render run in a later step, and always *)
(* before the next render.                                                 *)
(***************************************************************************)
EXTENDS Naturals, Sequences, FiniteSets, TLC

\* ------------------------------------------------------------------ bounds
MaxSaves == 2   \* save-draft actions taken in one behaviour
MaxMedia == 1   \* media items a draft holds
MaxNav   == 1   \* navigation calls recorded in one behaviour
MaxEdits == 1   \* field edits and media picks made in one behaviour
MaxChildren == 4   \* children an OrderedList is given

\* ------------------------------------------------------------- data model
StateKeys == {"k1", "k2"}
Titles    == {"", "Gala"}
MediaTags == {"device", "remote"}

\* contentItems[stateKey] ?? null, with event?.id of a missing draft undefined
NoDraft == [id |-> "undefined"]

MediaLists == UNION {[1..n -> MediaTags] : n \in 0..MaxMedia}

\* An Event draft of the shared store, keyed by a state key.
Drafts(k) ==
  {[id |-> "id-" \o k, name |-> "name-" \o k, title |-> t, media |-> m] :
     t \in Titles, m \in MediaLists}

\* {...a, ...b}: the fields of b laid over those of a
Spread(a, b) ==
  [f \in (DOMAIN a) \cup (DOMAIN b) |-> IF f \in DOMAIN b THEN b[f] ELSE a[f]]

\* the record r without the fields in gone
Without(r, gone) == [f \in (DOMAIN r) \ gone |-> r[f]]

RECURSIVE SelectTag(_, _)
SelectTag(media, tag) ==
  IF media = <<>> THEN <<>>
  ELSE IF Head(media) = tag
       THEN <<Head(media)>> \o SelectTag(Tail(media), tag)
       ELSE SelectTag(Tail(media), tag)

\* helpers/media getDeviceImages: the draft's local, not yet uploaded images
getDeviceImages(ev) ==
  IF ev = NoDraft THEN <<>> ELSE SelectTag(ev.media, "device")

\* helpers/media insertCreatedMedia: the media fields of eventFields with the
\* uploaded device images replaced by their remote descriptors
insertCreatedMedia(eventFields, uploadedMedia) ==
  [media |-> [i \in 1..Len(eventFields.media) |-> "remote"]]

\* helpers/contentItemHelper canSubmitContentItem: the required fields are set
canSubmitContentItem(item) ==
  /\ item # NoDraft
  /\ item.title # ""

\* const headerTitle = event?.title || 'Untitled event'
headerTitle(ev) ==
  IF ev = NoDraft THEN "Untitled event"
  ELSE IF ev.title = "" THEN "Untitled event" ELSE ev.title

\* initRequestFields without the delete of line 115
initRequestFieldsKeepName(eventFields) == Without(eventFields, {"id"})

\* initRequestFields: the request shape of the draft, id and name deleted
initRequestFields(eventFields) == Without(eventFields, {"id", "name"})

VARIABLES
  stateKey,                 \* route.params.stateKey, kept in stateKeyRef
  contentItems,             \* the shared draft store (useContentItems)
  isValidating,             \* useState(false)
  showSuccessToast,         \* useState(false)
  showErrorToast,           \* useState(false)
  shouldShowBottomActions,  \* useState(true)
  draftSaved,               \* useState(false)
  rendered,                 \* what the last committed render captured
  pendingEffects,           \* passive effects scheduled by the last render
  syncFlush,                \* a discrete event's updates await their render
  focusCallback,            \* the callback useFocusEffect currently holds
  listeners,                \* beforeRemove listeners subscribed on navigation
  mounted,                  \* the screen is in the navigation stack
  focused,                  \* the screen is the focused route
  saves,                    \* the save pipelines started, by start order
  navCalls,                 \* navigation calls made, in order
  lastBack,                 \* what the last beforeRemove event met
  edits,                    \* field edits made so far
  children,                 \* the children prop an OrderedList is given
  rows                      \* the rows that OrderedList has rendered

vars == <<stateKey, contentItems, isValidating, showSuccessToast,
          showErrorToast, shouldShowBottomActions, draftSaved, rendered,
          pendingEffects, syncFlush, focusCallback, listeners, mounted,
          focused, saves, navCalls, lastBack, edits,
         children, rows>>


\* ------------------------------------------------------------ React frame
\* The values one render of EditEventScreen reads (lines 34-44) and its
\* closures and JSX capture.
Snapshot ==
  [event                   |-> contentItems[stateKey],
   isValidating            |-> isValidating,
   showSuccessToast        |-> showSuccessToast,
   showErrorToast          |-> showErrorToast,
   shouldShowBottomActions |-> shouldShowBottomActions,
   draftSaved              |-> draftSaved]

\* isDisabled testing only that a draft exists, not its required fields
isDisabledNoDraftOnly(r) == r.event = NoDraft

\* const isDisabled = !canSubmitContentItem(contentItems[stateKey], ...)
isDisabled(r) == ~canSubmitContentItem(r.event)

\* {shouldShowBottomActions && bottomActions}, past the early return of
\* line 220: the Save Draft and Preview buttons are on screen
ButtonsShown(r) == r.event # NoDraft /\ r.shouldShowBottomActions

\* The dependency lists of the passive effects of lines 88-94 and 166-192.
BottomActionsDeps(r) == <<r.isValidating, r.showSuccessToast, r.showErrorToast>>

FocusDeps(r) == <<r.draftSaved, r.event.id, headerTitle(r.event), stateKey>>

ChangedEffects(old, new) ==
  (IF BottomActionsDeps(old) # BottomActionsDeps(new)
     THEN {"bottomActions"} ELSE {})
  \cup (IF FocusDeps(old) # FocusDeps(new) THEN {"focus"} ELSE {})

\* The body of the useEffect of lines 88-94, run with the flags of the
\* render that scheduled it.
BottomActionsEffect(r) ==
  IF r.isValidating \/ r.showSuccessToast \/ r.showErrorToast
    THEN FALSE
    ELSE TRUE

\* The beforeRemove listener of lines 168-183 as a closure: what it reads.
GuardClosure(r) ==
  [draftSaved |-> r.draftSaved,
   stateKey   |-> stateKey,
   id         |-> r.event.id,
   title      |-> headerTitle(r.event)]

\* Unsubscribe with the cleanup function left out
UnsubscribeNothing(ls) == ls

\* return () => { unsubscribe(); }: the listener this effect subscribed, if
\* it subscribed one, is removed
Unsubscribe(ls) == IF ls = <<>> THEN ls ELSE SubSeq(ls, 1, Len(ls) - 1)

\* useFocusEffect on a new callback: clean the previous run up, then run the
\* callback if the screen is focused
FocusEffect(ls, r) ==
  IF focused THEN Append(Unsubscribe(ls), GuardClosure(r)) ELSE Unsubscribe(ls)

\* The listener body: one DiscardChanges push per listener that sees the
\* draft as unsaved.
RECURSIVE DiscardPushes(_)
DiscardPushes(ls) ==
  IF ls = <<>> THEN <<>>
  ELSE (IF ~Head(ls).draftSaved
          THEN <<[route    |-> "DiscardChanges",
                  stateKey |-> Head(ls).stateKey,
                  id       |-> Head(ls).id,
                  save     |-> 0]>>
          ELSE <<>>)
       \o DiscardPushes(Tail(ls))

\* e.preventDefault() was called by some listener
Prevented(ls) == \E i \in 1..Len(ls) : ~ls[i].draftSaved

\* ------------------------------------------------------------------- Init
NoBack ==
  [kind |-> "none", saved |-> FALSE, afterUpdate |-> FALSE, wasFocused |-> FALSE,
   prevented |-> FALSE, pushed |-> 0]

InitialRender(k, d) ==
  [event                   |-> d,
   isValidating            |-> FALSE,
   showSuccessToast        |-> FALSE,
   showErrorToast          |-> FALSE,
   shouldShowBottomActions |-> TRUE,
   draftSaved              |-> FALSE]

\* The screen is mounted and focused, its first render is committed and the
\* effects of that render have run.
ScreenInit(key, d) ==
  /\ stateKey = key
  /\ contentItems = [k \in StateKeys |-> IF k = stateKey THEN d ELSE NoDraft]
  /\ rendered = InitialRender(stateKey, d)
  /\ focusCallback =
       [draftSaved |-> FALSE, stateKey |-> stateKey, id |-> d.id,
        title |-> headerTitle(d)]
  /\ listeners = <<focusCallback>>
  /\ isValidating = FALSE
  /\ showSuccessToast = FALSE
  /\ showErrorToast = FALSE
  /\ shouldShowBottomActions = TRUE
  /\ draftSaved = FALSE
  /\ pendingEffects = {}
  /\ syncFlush = FALSE
  /\ mounted = TRUE
  /\ focused = TRUE
  /\ saves = <<>>
  /\ navCalls = <<>>
  /\ lastBack = NoBack
  /\ edits = 0

Init ==
  \* the keys are interchangeable: one stands for any
  /\ \E d \in Drafts("k1") \cup {NoDraft} : ScreenInit("k1", d)
  /\ children = <<>>   \* the screen renders no OrderedList
  /\ rows = <<>>

\* ------------------------------------------------------- render and effects
\* React commits a render of the current state; the effects whose
\* dependencies changed are scheduled.
Render ==
  /\ mounted
  /\ pendingEffects = {}
  /\ syncFlush \/ rendered # Snapshot
  /\ rendered' = Snapshot
  /\ pendingEffects' = ChangedEffects(rendered, Snapshot)
  /\ syncFlush' = FALSE
  /\ UNCHANGED <<children, rows, stateKey, contentItems, isValidating, showSuccessToast,
                 showErrorToast, shouldShowBottomActions, draftSaved,
                 focusCallback, listeners, mounted, focused, saves, navCalls,
                 lastBack, edits>>

\* React flushes the passive effects of the last render.
RunEffects ==
  /\ mounted
  /\ pendingEffects # {}
  /\ shouldShowBottomActions' =
       IF "bottomActions" \in pendingEffects
         THEN BottomActionsEffect(rendered)
         ELSE shouldShowBottomActions
  /\ listeners' =
       IF "focus" \in pendingEffects
         THEN FocusEffect(listeners, rendered)
         ELSE listeners
  /\ focusCallback' =
       IF "focus" \in pendingEffects
         THEN GuardClosure(rendered)
         ELSE focusCallback
  /\ pendingEffects' = {}
  /\ UNCHANGED <<children, rows, stateKey, contentItems, isValidating, showSuccessToast,
                 showErrorToast, draftSaved, rendered, syncFlush, mounted,
                 focused, saves, navCalls, lastBack, edits>>


\* ------------------------------------------------------- the save pipeline
\* One call of handleSaveDraft (lines 120-142): the values its closure
\* captured, where it stands, the network calls it has in flight and the
\* steps it has taken, in order.
NoRequest == [id |-> "none"]

NewSave(ev) ==
  [pc          |-> "start",
   event       |-> ev,
   stateFields |-> NoDraft,
   request     |-> NoRequest,
   inflight    |-> {},
   log         |-> <<>>,
   upload      |-> "none",
   outcome     |-> "pending"]

\* uploadMultipleImages(deviceMedia) is issued (line 50)
StartUpload(s) ==
  [s EXCEPT !.pc = "upload",
            !.inflight = @ \cup {"upload"},
            !.log = Append(@, "upload")]

\* lines 124-130: initRequestFields(stateFields), then updateContentItem is
\* issued with the id and title of the captured event
SubmitUpdate(s, fields) ==
  [s EXCEPT !.pc = "update",
            !.stateFields = fields,
            !.request = [id     |-> s.event.id,
                         name   |-> s.event.title,
                         fields |-> initRequestFields(fields)],
            !.inflight = @ \cup {"update"},
            !.log = @ \o <<"mapFields", "update">>]

\* getStateAfterMediaUpload without the early return of lines 74-76
getStateAfterMediaUploadAlways(s) == StartUpload(s)

\* getStateAfterMediaUpload (lines 72-81) and what follows its await
getStateAfterMediaUpload(s) ==
  IF Len(getDeviceImages(s.event)) = 0
    THEN SubmitUpdate(s, s.event)
    ELSE StartUpload(s)

\* UploadedFields without the spread of eventFields
UploadedFieldsOnly(s) == insertCreatedMedia(s.event, getDeviceImages(s.event))

\* the .then of uploadDeviceMedia (lines 51-63): the fields it returns
UploadedFields(s) == Spread(s.event, insertCreatedMedia(s.event, getDeviceImages(s.event)))

UploadResolved(s) ==
  SubmitUpdate([s EXCEPT !.inflight = @ \ {"upload"},
                         !.log = Append(@, "uploaded"),
                         !.upload = "ok"],
               UploadedFields(s))

\* UploadRejected returning the fields with the media merge applied
UploadRejectedMerged(s) ==
  SubmitUpdate([s EXCEPT !.inflight = @ \ {"upload"},
                         !.log = Append(@, "uploaded"),
                         !.upload = "failed"],
               UploadedFields(s))

\* the .catch of uploadDeviceMedia (lines 64-67): return eventFields
UploadRejected(s) ==
  SubmitUpdate([s EXCEPT !.inflight = @ \ {"upload"},
                         !.log = Append(@, "uploaded"),
                         !.upload = "failed"],
               s.event)

\* UpdateResolved with both listing refreshes issued at once
UpdateResolvedParallel(s) ==
  [s EXCEPT !.pc = "refetchEvents",
            !.inflight = (@ \ {"update"}) \cup {"refetchEvents", "refetchMedia"},
            !.log = @ \o <<"updated", "refetchEvents", "refetchMedia">>]

\* the .then of updateContentItem up to its first await (lines 131-134)
UpdateResolved(s) ==
  [s EXCEPT !.pc = "refetchEvents",
            !.inflight = (@ \ {"update"}) \cup {"refetchEvents"},
            !.log = @ \o <<"updated", "refetchEvents">>]

\* line 135: await refetchMediaListing()
RefetchEventsResolved(s) ==
  [s EXCEPT !.pc = "refetchMedia",
            !.inflight = (@ \ {"refetchEvents"}) \cup {"refetchMedia"},
            !.log = @ \o <<"refetchedEvents", "refetchMedia">>]

\* lines 136-137: setIsValidating(false); navigation.navigate('MainTabs')
RefetchMediaResolved(s) ==
  [s EXCEPT !.pc = "done",
            !.inflight = @ \ {"refetchMedia"},
            !.log = @ \o <<"refetchedMedia", "navigate">>,
            !.outcome = "navigated"]

\* Rejected with a rejected update call issued once more
RejectedRetried(s, op) ==
  IF op = "update" /\ Len(s.log) < 8
    THEN [s EXCEPT !.log = Append(@, "update")]
    ELSE [s EXCEPT !.pc = "failed",
                   !.inflight = @ \ {op},
                   !.outcome = op \o "Rejected"]

\* the .catch of lines 139-142, met by a rejection of the call op
Rejected(s, op) ==
  [s EXCEPT !.pc = "failed",
            !.inflight = @ \ {op},
            !.outcome = op \o "Rejected"]

\* the update call of save s has resolved
UpdateSucceeded(s) == \E i \in 1..Len(s.log) : s.log[i] = "updated"

\* editMultiple({id: stateKey, fields}): the fields are merged into the draft
editMultiple(store, key, fields) ==
  [store EXCEPT ![key] = Spread(@, fields)]

\* ------------------------------------------------------------- navigation
\* A beforeRemove event is dispatched to the screen: every subscribed
\* listener runs.  A prevented removal leaves the screen mounted under the
\* DiscardChanges route it pushed (the screen blurs, useFocusEffect cleans
\* up); otherwise the screen is removed and unmounts.
BeforeRemove(kind, calls) ==
  /\ lastBack' = [kind        |-> kind,
                  saved       |-> draftSaved,
                  afterUpdate |-> \E p \in 1..Len(saves) : UpdateSucceeded(saves[p]),
                  wasFocused  |-> focused,
                  prevented   |-> Prevented(listeners),
                  pushed      |-> Len(DiscardPushes(listeners))]
  /\ navCalls' = navCalls \o calls \o DiscardPushes(listeners)
  /\ listeners' = Unsubscribe(listeners)
  /\ focused' = FALSE
  /\ IF Prevented(listeners)
       THEN UNCHANGED <<mounted, pendingEffects, syncFlush>>
       ELSE /\ mounted' = FALSE
            /\ pendingEffects' = {}
            /\ syncFlush' = FALSE

\* navigation.navigate('MainTabs') by save p: the screen, if still in the
\* stack, is to be removed
NavigateMainTabs(p) ==
  LET call == <<[route |-> "MainTabs", stateKey |-> "", id |-> "", save |-> p]>> IN
  IF mounted
    THEN BeforeRemove("navigate", call)
    ELSE /\ navCalls' = navCalls \o call
         /\ UNCHANGED <<lastBack, listeners, focused, mounted, pendingEffects,
                        syncFlush>>


\* ---------------------------------------------------------------- actions
\* The user presses Save Draft: the button is on screen and enabled in the
\* committed render, and its onPress is that render's handleSaveDraft.  The
\* handler runs to its first pending network call.
handleSaveDraft ==
  /\ ~syncFlush
  /\ mounted /\ focused
  /\ ButtonsShown(rendered)
  /\ ~isDisabled(rendered)
  /\ Len(saves) < MaxSaves
  /\ isValidating' = TRUE
  /\ saves' = Append(saves, getStateAfterMediaUpload(NewSave(rendered.event)))
  /\ syncFlush' = TRUE
  /\ UNCHANGED <<children, rows, stateKey, contentItems, showSuccessToast, showErrorToast,
                 shouldShowBottomActions, draftSaved, rendered, pendingEffects,
                 focusCallback, listeners, mounted, focused, navCalls,
                 lastBack, edits>>

\* uploadMultipleImages resolves: lines 51-63, then lines 124-130
UploadResolves(p) ==
  /\ ~syncFlush
  /\ saves[p].pc = "upload"
  /\ contentItems' =
       editMultiple(contentItems, stateKey,
                    insertCreatedMedia(saves[p].event, getDeviceImages(saves[p].event)))
  /\ saves' = [saves EXCEPT ![p] = UploadResolved(@)]
  /\ UNCHANGED <<children, rows, stateKey, isValidating, showSuccessToast, showErrorToast,
                 shouldShowBottomActions, draftSaved, rendered, pendingEffects,
                 syncFlush, focusCallback, listeners, mounted, focused,
                 navCalls, lastBack, edits>>

\* uploadMultipleImages rejects: lines 64-67, then lines 124-130
UploadRejects(p) ==
  /\ ~syncFlush
  /\ saves[p].pc = "upload"
  /\ saves' = [saves EXCEPT ![p] = UploadRejected(@)]
  /\ UNCHANGED <<children, rows, stateKey, contentItems, isValidating, showSuccessToast,
                 showErrorToast, shouldShowBottomActions, draftSaved, rendered,
                 pendingEffects, syncFlush, focusCallback, listeners, mounted,
                 focused, navCalls, lastBack, edits>>

\* updateContentItem resolves: lines 131-134
UpdateResolves(p) ==
  /\ ~syncFlush
  /\ saves[p].pc = "update"
  /\ draftSaved' = TRUE
  /\ showSuccessToast' = TRUE
  /\ saves' = [saves EXCEPT ![p] = UpdateResolved(@)]
  /\ UNCHANGED <<children, rows, stateKey, contentItems, isValidating, showErrorToast,
                 shouldShowBottomActions, rendered, pendingEffects, syncFlush,
                 focusCallback, listeners, mounted, focused, navCalls,
                 lastBack, edits>>

\* Catch without the setIsValidating(false) of line 141
CatchStillValidating(p, op) ==
  /\ showErrorToast' = TRUE
  /\ saves' = [saves EXCEPT ![p] = Rejected(@, op)]
  /\ UNCHANGED <<children, rows, stateKey, contentItems, isValidating, showSuccessToast,
                 shouldShowBottomActions, draftSaved, rendered, pendingEffects,
                 syncFlush, focusCallback, listeners, mounted, focused,
                 navCalls, lastBack, edits>>

\* The .catch of lines 139-142 runs for save p, whose call op rejected.
Catch(p, op) ==
  /\ showErrorToast' = TRUE
  /\ isValidating' = FALSE
  /\ saves' = [saves EXCEPT ![p] = Rejected(@, op)]
  /\ UNCHANGED <<children, rows, stateKey, contentItems, showSuccessToast,
                 shouldShowBottomActions, draftSaved, rendered, pendingEffects,
                 syncFlush, focusCallback, listeners, mounted, focused,
                 navCalls, lastBack, edits>>

\* updateContentItem rejects
UpdateRejects(p) ==
  /\ ~syncFlush
  /\ saves[p].pc = "update"
  /\ Catch(p, "update")

\* refetchEventListing resolves: line 135
RefetchEventsResolves(p) ==
  /\ ~syncFlush
  /\ saves[p].pc = "refetchEvents"
  /\ saves' = [saves EXCEPT ![p] = RefetchEventsResolved(@)]
  /\ UNCHANGED <<children, rows, stateKey, contentItems, isValidating, showSuccessToast,
                 showErrorToast, shouldShowBottomActions, draftSaved, rendered,
                 pendingEffects, syncFlush, focusCallback, listeners, mounted,
                 focused, navCalls, lastBack, edits>>

\* refetchEventListing rejects inside the .then: the .catch runs
RefetchEventsRejects(p) ==
  /\ ~syncFlush
  /\ saves[p].pc = "refetchEvents"
  /\ Catch(p, "refetchEvents")

\* refetchMediaListing resolves: lines 136-137
\* RefetchMediaResolves without the setIsValidating(false) of line 136
RefetchMediaResolvesValidating(p) ==
  /\ ~syncFlush
  /\ saves[p].pc = "refetchMedia"
  /\ saves' = [saves EXCEPT ![p] = RefetchMediaResolved(@)]
  /\ NavigateMainTabs(p)
  /\ UNCHANGED <<children, rows, stateKey, contentItems, isValidating,
                 showSuccessToast, showErrorToast, shouldShowBottomActions,
                 draftSaved, rendered, focusCallback, edits>>

RefetchMediaResolves(p) ==
  /\ ~syncFlush
  /\ saves[p].pc = "refetchMedia"
  /\ isValidating' = FALSE
  /\ saves' = [saves EXCEPT ![p] = RefetchMediaResolved(@)]
  /\ NavigateMainTabs(p)
  /\ UNCHANGED <<children, rows, stateKey, contentItems, showSuccessToast, showErrorToast,
                 shouldShowBottomActions, draftSaved, rendered, focusCallback,
                 edits>>

\* refetchMediaListing rejects inside the .then: the .catch runs
RefetchMediaRejects(p) ==
  /\ ~syncFlush
  /\ saves[p].pc = "refetchMedia"
  /\ Catch(p, "refetchMedia")

\* The success toast is dismissed (lines 96-98).
handleSuccessToastDismiss ==
  /\ ~syncFlush
  /\ mounted
  /\ rendered.event # NoDraft /\ rendered.showSuccessToast
  /\ showSuccessToast' = FALSE
  /\ UNCHANGED <<children, rows, stateKey, contentItems, isValidating, showErrorToast,
                 shouldShowBottomActions, draftSaved, rendered, pendingEffects,
                 syncFlush, focusCallback, listeners, mounted, focused, saves,
                 navCalls, lastBack, edits>>

\* The error toast is dismissed (lines 100-102).
handleErrorToastDismiss ==
  /\ ~syncFlush
  /\ mounted
  /\ rendered.event # NoDraft /\ rendered.showErrorToast
  /\ showErrorToast' = FALSE
  /\ UNCHANGED <<children, rows, stateKey, contentItems, isValidating, showSuccessToast,
                 shouldShowBottomActions, draftSaved, rendered, pendingEffects,
                 syncFlush, focusCallback, listeners, mounted, focused, saves,
                 navCalls, lastBack, edits>>

\* The user presses Preview (lines 152-158): ReviewEvent is put over the
\* screen, which blurs.
onReview ==
  /\ ~syncFlush
  /\ mounted /\ focused
  /\ ButtonsShown(rendered)
  /\ ~isDisabled(rendered)
  /\ Len(navCalls) < MaxNav
  /\ navCalls' = Append(navCalls,
       [route |-> "ReviewEvent", stateKey |-> stateKey, id |-> "", save |-> 0])
  /\ focused' = FALSE
  /\ listeners' = Unsubscribe(listeners)
  /\ UNCHANGED <<children, rows, stateKey, contentItems, isValidating, showSuccessToast,
                 showErrorToast, shouldShowBottomActions, draftSaved, rendered,
                 pendingEffects, syncFlush, focusCallback, mounted, saves,
                 lastBack, edits>>

\* The screen is about to be removed from the stack: a back press while it
\* is focused, or a removal from a route above it.
BackAttempt ==
  /\ ~syncFlush
  /\ mounted
  /\ Len(navCalls) < MaxNav
  /\ BeforeRemove("back", <<>>)
  /\ UNCHANGED <<children, rows, stateKey, contentItems, isValidating, showSuccessToast,
                 showErrorToast, shouldShowBottomActions, draftSaved, rendered,
                 focusCallback, saves, edits>>

\* The route above the screen is closed: the screen is focused again and
\* useFocusEffect runs the callback it holds.
ReturnFocus ==
  /\ ~syncFlush
  /\ mounted /\ ~focused
  /\ focused' = TRUE
  /\ listeners' = Append(listeners, focusCallback)
  /\ UNCHANGED <<children, rows, stateKey, contentItems, isValidating, showSuccessToast,
                 showErrorToast, shouldShowBottomActions, draftSaved, rendered,
                 pendingEffects, syncFlush, focusCallback, mounted, saves,
                 navCalls, lastBack, edits>>

\* The user edits the title in the ContentItemFields form (lines 226-231),
\* which writes the draft of the shared store.
EditField(t) ==
  /\ ~syncFlush
  /\ mounted /\ focused
  /\ rendered.event # NoDraft
  /\ edits < MaxEdits
  /\ contentItems[stateKey].title # t
  /\ contentItems' = editMultiple(contentItems, stateKey, [title |-> t])
  /\ edits' = edits + 1
  /\ syncFlush' = TRUE
  /\ UNCHANGED <<children, rows, stateKey, isValidating, showSuccessToast, showErrorToast,
                 shouldShowBottomActions, draftSaved, rendered, pendingEffects,
                 focusCallback, listeners, mounted, focused, saves, navCalls,
                 lastBack>>

Next ==
  \/ Render
  \/ RunEffects
  \/ handleSaveDraft
  \/ \E p \in 1..Len(saves) : UploadResolves(p)
  \/ \E p \in 1..Len(saves) : UploadRejects(p)
  \/ \E p \in 1..Len(saves) : UpdateResolves(p)
  \/ \E p \in 1..Len(saves) : UpdateRejects(p)
  \/ \E p \in 1..Len(saves) : RefetchEventsResolves(p)
  \/ \E p \in 1..Len(saves) : RefetchEventsRejects(p)
  \/ \E p \in 1..Len(saves) : RefetchMediaResolves(p)
  \/ \E p \in 1..Len(saves) : RefetchMediaRejects(p)
  \/ handleSuccessToastDismiss
  \/ handleErrorToastDismiss
  \/ onReview
  \/ BackAttempt
  \/ ReturnFocus
  \/ \E t \in Titles : EditField(t)

Spec == Init /\ [][Next]_vars

\* Each network call of save p eventually resolves or rejects.
Settles(p) ==
  \/ UploadResolves(p)
  \/ UploadRejects(p)
  \/ UpdateResolves(p)
  \/ UpdateRejects(p)
  \/ RefetchEventsResolves(p)
  \/ RefetchEventsRejects(p)
  \/ RefetchMediaResolves(p)
  \/ RefetchMediaRejects(p)

\* React commits a scheduled render and runs its passive effects; every
\* promise of a save settles.
FairSpec ==
  /\ Spec
  /\ WF_vars(Render)
  /\ WF_vars(RunEffects)
  /\ \A p \in 1..MaxSaves : WF_vars(p \in 1..Len(saves) /\ Settles(p))


\* ------------------------------------------------------------- properties
Saves == 1..Len(saves)

IsPrefix(a, b) == Len(a) <= Len(b) /\ a = SubSeq(b, 1, Len(a))

\* The steps of one save action in their fixed order; the upload steps are
\* there when the captured draft holds device media.
FullLog(s) ==
  (IF Len(getDeviceImages(s.event)) > 0 THEN <<"upload", "uploaded">> ELSE <<>>)
  \o <<"mapFields", "update", "updated", "refetchEvents", "refetchedEvents",
       "refetchMedia", "refetchedMedia", "navigate">>

NavigatedBy(p) ==
  \E i \in 1..Len(navCalls) : navCalls[i].route = "MainTabs" /\ navCalls[i].save = p

Logged(s, step) == \E i \in 1..Len(s.log) : s.log[i] = step

\* C1: the steps of every save action are taken in one fixed linear order
\* (upload, field mapping, update, event-listing refresh, media-listing
\* refresh, navigation to MainTabs), each started only when the one before
\* it has completed, and a save action never has two network calls in
\* flight at once.
C1_LinearPipeline ==
  \A p \in Saves :
    /\ IsPrefix(saves[p].log, FullLog(saves[p]))
    /\ Cardinality(saves[p].inflight) <= 1
    /\ saves[p].inflight \subseteq {saves[p].pc}
    /\ NavigatedBy(p) <=>
         (Logged(saves[p], "refetchedEvents") /\ Logged(saves[p], "refetchedMedia"))

\* a save action with device media has run its whole pipeline
C1_Witness ==
  \E p \in Saves :
    /\ saves[p].upload = "ok"
    /\ saves[p].pc = "done"
    /\ NavigatedBy(p)

\* C2: when the update call of a save action rejects, the error toast flag
\* is set, the validating flag is cleared, the success toast flag and
\* draftSaved are left as they were (a hidden toast stays hidden, an unsaved
\* draft stays unsaved), no navigation call is made, and that save action
\* never navigates to MainTabs nor marks the draft saved; draftSaved and the
\* success toast are only ever set by a successful update.
C2_FailedSave ==
  /\ [](\A p \in Saves :
          saves[p].outcome = "updateRejected" =>
            /\ ~NavigatedBy(p)
            /\ ~Logged(saves[p], "navigate")
            /\ ~UpdateSucceeded(saves[p])
            /\ saves[p].inflight = {})
  /\ []((\A p \in Saves : ~UpdateSucceeded(saves[p])) =>
          (~draftSaved /\ ~showSuccessToast))
  /\ [][\A p \in Saves :
          UpdateRejects(p) =>
            /\ showErrorToast'
            /\ ~isValidating'
            /\ showSuccessToast' = showSuccessToast
            /\ draftSaved' = draftSaved
            /\ navCalls' = navCalls]_vars

\* the only save taken was rejected by the update call
C2_Witness ==
  /\ Len(saves) = 1
  /\ saves[1].outcome = "updateRejected"
  /\ showErrorToast /\ ~showSuccessToast /\ ~isValidating /\ ~draftSaved
  /\ navCalls = <<>>

\* C3: when the upload call of a save action rejects, the fields
\* getStateAfterMediaUpload returns are the input fields, the shared store
\* is left as it was, the error toast flag is left as it was, nothing is
\* thrown to handleSaveDraft, and the save goes on to issue the update call
\* with the mapped input fields.
C3_FailedUpload ==
  /\ [](\A p \in Saves :
          saves[p].upload = "failed" =>
            /\ saves[p].stateFields = saves[p].event
            /\ Logged(saves[p], "update")
            /\ saves[p].request.fields = initRequestFields(saves[p].event)
            /\ saves[p].outcome # "uploadRejected")
  /\ [][\A p \in Saves :
          UploadRejects(p) =>
            /\ contentItems' = contentItems
            /\ showErrorToast' = showErrorToast
            /\ saves'[p].pc = "update"
            /\ saves'[p].inflight = {"update"}]_vars

\* a save whose upload failed has its update call in flight, the store
\* still holding the device media
C3_Witness ==
  \E p \in Saves :
    /\ saves[p].upload = "failed"
    /\ saves[p].pc = "update"
    /\ ~showErrorToast
    /\ getDeviceImages(contentItems[stateKey]) # <<>>


\* the last call of navCalls
LastCall == navCalls[Len(navCalls)]

\* C4: a beforeRemove event that reaches the focused screen is not
\* intercepted and pushes no DiscardChanges route when the draft is marked
\* saved; when the draft is not marked saved it is cancelled and pushes
\* exactly one DiscardChanges route, carrying the screen's stateKey and the
\* draft's id.
C4_BackGuard ==
  (lastBack.kind # "none" /\ lastBack.wasFocused) =>
    /\ lastBack.saved => (~lastBack.prevented /\ lastBack.pushed = 0)
    /\ ~lastBack.saved =>
         /\ lastBack.prevented
         /\ lastBack.pushed = 1
         /\ LastCall.route = "DiscardChanges"
         /\ LastCall.stateKey = stateKey
         /\ LastCall.id = contentItems[stateKey].id

\* C5: no beforeRemove event that occurs after an update call has succeeded
\* is intercepted.
C5_SavedBeforeGuard ==
  (lastBack.kind # "none" /\ lastBack.afterUpdate) => ~lastBack.prevented

\* a save is active from setIsValidating(true) until its pipeline ends
Active(p) == saves[p].pc \notin {"done", "failed"}

\* C6: at most one save pipeline is active in any state.
C6_OneSaveAtATime == Cardinality({p \in Saves : Active(p)}) <= 1

\* C7: in every committed render the bottom actions are shown exactly when
\* the controller is not validating and no toast is visible.
C7_BottomActionsDerived ==
  mounted =>
    (rendered.shouldShowBottomActions <=>
       ~(rendered.isValidating \/ rendered.showSuccessToast \/ rendered.showErrorToast))

\* C8: a beforeRemove listener is subscribed only while the screen is
\* mounted and focused, at most one is subscribed at a time, and none
\* remains after focus loss or unmount.
C8_ListenerWhileFocused ==
  /\ Len(listeners) <= 1
  /\ listeners # <<>> => (mounted /\ focused)
  /\ (~mounted \/ ~focused) => listeners = <<>>

\* the screen lost focus to DiscardChanges, was focused again, and the
\* listener was since re-subscribed for a draft marked saved
C8_Witness ==
  /\ lastBack.prevented
  /\ mounted /\ focused
  /\ Len(listeners) = 1
  /\ listeners[1].draftSaved

\* C9: at most one of isValidating, showSuccessToast and showErrorToast is
\* true in any state.
C9_OneControllerState ==
  /\ ~(isValidating /\ showSuccessToast)
  /\ ~(isValidating /\ showErrorToast)
  /\ ~(showSuccessToast /\ showErrorToast)


\* the Save Draft and Preview buttons of the committed render can be pressed
ActionsOffered ==
  /\ mounted /\ focused /\ ~syncFlush
  /\ ButtonsShown(rendered)
  /\ ~isDisabled(rendered)

\* C10: a save pipeline starts only when canSubmitContentItem holds for the
\* draft the shared store holds under stateKey at that moment, and whenever
\* the Save Draft and Preview actions can be pressed the store's draft
\* satisfies the predicate.
C10_SubmitOnLiveDraft ==
  /\ [](ActionsOffered => canSubmitContentItem(contentItems[stateKey]))
  /\ [][handleSaveDraft => canSubmitContentItem(contentItems[stateKey])]_vars
  /\ [][onReview => canSubmitContentItem(contentItems[stateKey])]_vars

\* a draft that could not be submitted was edited, the actions were then
\* offered and a save was started
C10_Witness ==
  /\ edits > 0
  /\ Len(saves) > 0
  /\ canSubmitContentItem(contentItems[stateKey])

\* An unsaved draft is always guarded: a beforeRemove event that reaches the
\* focused screen while draftSaved is false is cancelled by one listener.
UnsavedIsGuarded ==
  (lastBack.kind # "none" /\ lastBack.wasFocused /\ ~lastBack.saved) =>
    (lastBack.prevented /\ lastBack.pushed = 1)


\* the updateContentItem calls save s has issued
RECURSIVE Count(_, _)
Count(log, step) ==
  IF log = <<>> THEN 0
  ELSE (IF Head(log) = step THEN 1 ELSE 0) + Count(Tail(log), step)

RECURSIVE UpdateCalls(_)
UpdateCalls(ss) ==
  IF ss = <<>> THEN 0 ELSE Count(Head(ss).log, "update") + UpdateCalls(Tail(ss))

\* C11: a save action issues at most one updateContentItem call, exactly
\* one once its upload step is over, whatever the outcome; a save whose
\* update was rejected has no call in flight and issues no other; the
\* update calls issued never outnumber the save actions taken.
C11_OneUpdatePerSave ==
  /\ \A p \in Saves :
       /\ Count(saves[p].log, "update") <= 1
       /\ saves[p].pc # "upload" => Count(saves[p].log, "update") = 1
       /\ saves[p].pc = "failed" => saves[p].inflight = {}
  /\ UpdateCalls(saves) <= Len(saves)

\* a save was rejected by the update call and the user took a new save
\* action, which issued its own call
C11_Witness ==
  /\ Len(saves) = 2
  /\ saves[1].outcome = "updateRejected"
  /\ Logged(saves[2], "update")
  /\ UpdateCalls(saves) = 2

AllRemote(media) == \A i \in 1..Len(media) : media[i] = "remote"

\* C12: when the upload call of a save with device media resolves, the
\* fields getStateAfterMediaUpload returns hold every field of the input
\* with the media replaced by the remote descriptors, the store entry under
\* stateKey holds the same media, its other fields and the other entries as
\* they were, and only then is the update call issued, with those fields.
C12_UploadMerged ==
  /\ [](\A p \in Saves :
          saves[p].upload = "ok" =>
            /\ DOMAIN saves[p].stateFields = DOMAIN saves[p].event
            /\ \A f \in DOMAIN saves[p].event \ {"media"} :
                 saves[p].stateFields[f] = saves[p].event[f]
            /\ Len(saves[p].stateFields.media) = Len(saves[p].event.media)
            /\ AllRemote(saves[p].stateFields.media)
            /\ saves[p].request.fields = initRequestFields(saves[p].stateFields))
  /\ [][\A p \in Saves :
          UploadResolves(p) =>
            /\ ~Logged(saves[p], "update")
            /\ Logged(saves'[p], "update")
            /\ contentItems'[stateKey].media = saves'[p].stateFields.media
            /\ \A f \in DOMAIN contentItems[stateKey] \ {"media"} :
                 contentItems'[stateKey][f] = contentItems[stateKey][f]
            /\ \A k \in StateKeys \ {stateKey} :
                 contentItems'[k] = contentItems[k]]_vars

\* an upload has resolved for a draft with device media: the store holds the
\* remote media and the update call is in flight
C12_Witness ==
  \E p \in Saves :
    /\ saves[p].upload = "ok"
    /\ getDeviceImages(saves[p].event) # <<>>
    /\ saves[p].pc = "update"
    /\ AllRemote(contentItems[stateKey].media)

\* C13: a save of a draft with no device media gets its input fields back
\* from getStateAfterMediaUpload, issues no upload call, and the press that
\* starts it leaves the shared store as it was.
C13_NoMediaNoUpload ==
  /\ [](\A p \in Saves :
          getDeviceImages(saves[p].event) = <<>> =>
            /\ saves[p].upload = "none"
            /\ ~Logged(saves[p], "upload")
            /\ saves[p].pc # "upload"
            /\ saves[p].stateFields = saves[p].event)
  /\ [][handleSaveDraft => contentItems' = contentItems]_vars

\* a save of a draft without device media has its update call in flight
C13_Witness ==
  \E p \in Saves :
    /\ getDeviceImages(saves[p].event) = <<>>
    /\ saves[p].pc = "update"
    /\ saves[p].stateFields = saves[p].event

\* C14: while the store holds no draft under stateKey, no save pipeline
\* has started, no navigation call has been made and no beforeRemove event
\* has been intercepted.
C14_NoDraftTerminal ==
  contentItems[stateKey] = NoDraft =>
    /\ saves = <<>>
    /\ navCalls = <<>>
    /\ ~lastBack.prevented

Idle == ~isValidating /\ ~showSuccessToast /\ ~showErrorToast

\* C15: a toast dismissal clears its own flag, leaves the store, draftSaved
\* and the other flags as they were, and leaves the controller idle.
C15_DismissToIdle ==
  /\ [][handleSuccessToastDismiss =>
          /\ ~showSuccessToast'
          /\ UNCHANGED <<contentItems, draftSaved, isValidating, showErrorToast>>
          /\ Idle']_vars
  /\ [][handleErrorToastDismiss =>
          /\ ~showErrorToast'
          /\ UNCHANGED <<contentItems, draftSaved, isValidating, showSuccessToast>>
          /\ Idle']_vars

\* A toast dismissal changes nothing but its own flag.
DismissFrame ==
  /\ [][handleSuccessToastDismiss =>
          /\ ~showSuccessToast'
          /\ UNCHANGED <<contentItems, draftSaved, isValidating, showErrorToast>>]_vars
  /\ [][handleErrorToastDismiss =>
          /\ ~showErrorToast'
          /\ UNCHANGED <<contentItems, draftSaved, isValidating, showSuccessToast>>]_vars


\* C17: the fields payload of every updateContentItem call has neither an
\* id nor a name key, and the id and name arguments of the call are the id
\* and the title of the draft the save action was taken on, the id being
\* the one of the draft in the store.
C17_RequestShape ==
  \A p \in Saves :
    Logged(saves[p], "update") =>
      /\ saves[p].request # NoRequest
      /\ "id" \notin DOMAIN saves[p].request.fields
      /\ "name" \notin DOMAIN saves[p].request.fields
      /\ DOMAIN saves[p].request.fields = DOMAIN saves[p].event \ {"id", "name"}
      /\ saves[p].request.id = saves[p].event.id
      /\ saves[p].request.name = saves[p].event.title
      /\ saves[p].request.id = contentItems[stateKey].id

\* an update call is in flight for a draft that has an id, a name and a
\* title
C17_Witness ==
  \E p \in Saves :
    /\ saves[p].pc = "update"
    /\ {"id", "name", "title"} \subseteq DOMAIN saves[p].event
    /\ saves[p].request.name = "Gala"

\* C18: whenever draftSaved is true, the draft in the store under stateKey
\* is the content some successful update call submitted.
C18_SavedMeansSubmitted ==
  draftSaved =>
    \E p \in Saves :
      /\ UpdateSucceeded(saves[p])
      /\ saves[p].request.fields = initRequestFields(contentItems[stateKey])

\* C19: the success toast flag and the error toast flag are never both set.
C19_ToastsExclusive == ~(showSuccessToast /\ showErrorToast)


----------------------------------------------------------------------------
\* OrderedList (rich text component), rendered apart from the screen.

ChildNodes == {"a", "b", "c"}

ChildLists == UNION {[1..n -> ChildNodes] : n \in 0..MaxChildren}

\* the map callback with i++ in place of ++i
ListItemPostIncrement(child, i) ==
  [key |-> i, label |-> i, separator |-> ".  ", child |-> child]

\* the callback of children.map: key is read before ++i, the label after
ListItem(child, i) ==
  [key |-> i, label |-> i + 1, separator |-> ".  ", child |-> child]

\* children.map hands the callback each child with its 0-based index
OrderedList(cs) == [k \in 1..Len(cs) |-> ListItem(cs[k], k - 1)]

InitList ==
  /\ ScreenInit("k1", NoDraft)
  /\ children \in ChildLists
  /\ rows = <<>>

RenderOrderedList ==
  /\ rows' = OrderedList(children)
  /\ UNCHANGED <<children, stateKey, contentItems, isValidating,
                 showSuccessToast, showErrorToast, shouldShowBottomActions,
                 draftSaved, rendered, pendingEffects, syncFlush,
                 focusCallback, listeners, mounted, focused, saves, navCalls,
                 lastBack, edits>>

NextList == RenderOrderedList

SpecList == InitList /\ [][NextList]_vars

\* C16: rendering N children gives exactly N rows, the k-th row holding
\* the k-th child under the label k, so that the labels are 1..N in input
\* order with no gap and no duplicate.
C16_OrderedLabels ==
  /\ [][RenderOrderedList =>
          /\ Len(rows') = Len(children)
          /\ \A k \in 1..Len(children) :
               /\ rows'[k].label = k
               /\ rows'[k].child = children[k]]_vars
  /\ [](\A k \in 1..Len(rows) :
          /\ rows[k].label = k
          /\ \A j \in 1..Len(rows) : rows[j].label = rows[k].label => j = k)

\* a list of MaxChildren children with a repeated child has been rendered
C16_Witness ==
  /\ Len(children) = MaxChildren
  /\ Len(rows) = MaxChildren
  /\ children[1] = children[2]
  /\ rows[MaxChildren].label = MaxChildren


----------------------------------------------------------------------------
Finished(p) == p \in Saves /\ ~Active(p)

\* C20: every state in which isValidating is true is followed by a state
\* in which it is false and the error toast is shown or a navigation to
\* MainTabs has been issued, and from some state on every save started has
\* ended, as done or as failed.
C20_SaveTerminates ==
  /\ isValidating ~>
       (~isValidating /\ (showErrorToast \/ \E p \in Saves : NavigatedBy(p)))
  /\ <>[](\A p \in Saves : Finished(p))

\* a save has gone through the upload, the update and both refetches and
\* has left isValidating false with the navigation issued
C20_Witness ==
  \E p \in Saves :
    /\ saves[p].upload = "ok"
    /\ Finished(p)
    /\ NavigatedBy(p)
    /\ ~isValidating

====
